---- MODULE Spec2Model ----
(***************************************************************************)
(* Dynamic option resolution of the scaffold CLI                           *)
(* (cli/src/commands/register-new.command.ts): the registration-time       *)
(* discovery loop of registerPluginCommand, the argv pre-parser, the       *)
(* invocation-time loop resolveOptions with its readline prompts, and the  *)
(* hand-off to the provider's execute (Spec, FairSpec); preParseArgv and   *)
(* the prompts on inputs of their own (ParseSpec); and the plugin lists    *)
(* of the config files of cli/src/config.ts (ConfigSpec).                  *)
(***************************************************************************)
EXTENDS Integers, Sequences, FiniteSets, TLC

\* ------------------------------------------------------------------------
\* Bounds of the model
\* ------------------------------------------------------------------------

\* cap on the rounds of the registration-time discovery loop
MaxRounds == 5

\* cap on the getOptions calls of one resolveOptions run
MaxCalls == 5

\* ------------------------------------------------------------------------
\* JavaScript values.  A value is a tag and the comma-separated parts of
\* its text: the string "a,b" is [t |-> "string", s |-> <<"a","b">>], the
\* list ["a","b"] is [t |-> "array", s |-> <<"a","b">>].
\* ------------------------------------------------------------------------

Undef == [t |-> "undefined", s |-> <<>>]

\* a key an object does not have (reads as undefined, is not copied by a spread)
Absent == [t |-> "absent", s |-> <<>>]

Str(x) == [t |-> "string", s |-> <<x>>]

StrParts(parts) == [t |-> "string", s |-> parts]

Num(x) == [t |-> "number", s |-> <<x>>]

Bool(b) == [t |-> "boolean", s |-> <<IF b THEN "true" ELSE "false">>]

Arr(parts) == [t |-> "array", s |-> parts]

\* v !== undefined
IsDefined(v) == v.t \notin {"undefined", "absent"}

\* the numerals the model's inputs use
Numerals == {"1", "2", "3", "4", "18", "19", "20", "21"}

\* parseInt(w, 10): the integer a text starts with, 0 for a text that
\* starts with none (the callers only test 1 <= n, which NaN fails as 0
\* does)
IntOf(w) ==
    CASE w = "1" -> 1 [] w = "2" -> 2 [] w = "3" -> 3 [] w = "4" -> 4
      [] w = "2x" -> 2
      [] w = "18" -> 18 [] w = "19" -> 19 [] w = "20" -> 20 [] w = "21" -> 21
      [] OTHER -> 0

\* w.trim(), for the padded texts the model's answers use
Trim(w) ==
    CASE w = " " -> "" [] w = " q" -> "q" [] OTHER -> w

\* parts.map(s => s.trim())
TrimAll(parts) == [i \in 1..Len(parts) |-> Trim(parts[i])]

\* Number(text) for a text without commas: the numeral itself, 0 for the
\* empty text, NaN for anything else
NumberOf(parts) ==
    IF Len(parts) = 1 /\ parts[1] \in Numerals THEN Num(parts[1])
    ELSE IF parts = <<>> \/ parts = <<"">> THEN Num("0")
    ELSE Num("NaN")

\* !v  (JavaScript falsiness)
Falsy(v) ==
    \/ ~IsDefined(v)
    \/ v.t = "string" /\ (v.s = <<>> \/ v.s = <<"">>)
    \/ v.t = "boolean" /\ v.s = <<"false">>
    \/ v.t = "number" /\ v.s \in {<<"0">>, <<"NaN">>}

\* String(v) as comma-separated parts
StringOf(v) ==
    IF v.t \in {"undefined", "absent"} THEN <<"undefined">> ELSE v.s

\* elements of a sequence
Range(seq) == {seq[i] : i \in 1..Len(seq)}

\* seq.filter(p => p in set)
RECURSIVE FilterIn(_, _)
FilterIn(seq, set) ==
    IF seq = <<>> THEN <<>>
    ELSE (IF Head(seq) \in set THEN <<Head(seq)>> ELSE <<>>) \o FilterIn(Tail(seq), set)

\* ------------------------------------------------------------------------
\* Option definitions.  The long flag name is kept as its dash-separated
\* words: "--ai-config <value>" has base <<"ai","config">> and arg TRUE.
\* ------------------------------------------------------------------------

NoChoices == <<>>

Def(key, base, type, arg, choices, dflt, required) ==
    [key |-> key, base |-> base, type |-> type, arg |-> arg,
     choices |-> choices, dflt |-> dflt, required |-> required]

\* first letter upper-cased, for the words the model's flags are made of
Capital(w) ==
    CASE w = "config" -> "Config"
      [] w = "routing" -> "Routing"
      [] w = "run" -> "Run"
      [] w = "a" -> "A"
      [] w = "b" -> "B"
      [] w = "cache" -> "Cache"
      [] w = "manager" -> "Manager"
      [] OTHER -> w

\* baseName.replace(/-([a-z])/g, (_, c) => c.toUpperCase())
RECURSIVE CamelTail(_)
CamelTail(ws) ==
    IF ws = <<>> THEN "" ELSE Capital(Head(ws)) \o CamelTail(Tail(ws))

CamelKey(base) == Head(base) \o CamelTail(Tail(base))

\* ------------------------------------------------------------------------
\* argv tokens: a flag "--x-y" is [kind "flag", name <<"x","y">>], an
\* assignment "--x=a,b" is [kind "eq", name <<"x">>, val <<"a","b">>], and
\* any other token is [kind "word", val <<parts>>].
\* ------------------------------------------------------------------------

Flag(name) == [kind |-> "flag", name |-> name, val |-> <<>>]

Eq(name, parts) == [kind |-> "eq", name |-> name, val |-> parts]

Word(w) == [kind |-> "word", name |-> <<>>, val |-> <<w>>]

\* next.startsWith('--')
StartsWithDashes(tok) == tok.kind \in {"flag", "eq"}

\* parts joined by a separator: parts.join(sep)
RECURSIVE Join(_, _)
Join(parts, sep) ==
    IF parts = <<>> THEN ""
    ELSE IF Len(parts) = 1 THEN parts[1]
    ELSE parts[1] \o sep \o Join(Tail(parts), sep)

\* the token as the string the shell passed
TextOf(tok) ==
    CASE tok.kind = "flag" -> "--" \o Join(tok.name, "-")
      [] tok.kind = "eq" -> "--" \o Join(tok.name, "-") \o "=" \o Join(tok.val, ",")
      [] OTHER -> Join(tok.val, ",")

\* the token as a string value, kept in comma-separated parts
TextValue(tok) ==
    CASE tok.kind = "flag" -> Str(TextOf(tok))
      [] tok.kind = "eq" ->
            StrParts(<<"--" \o Join(tok.name, "-") \o "=" \o
                       (IF tok.val = <<>> THEN "" ELSE Head(tok.val))>>
                     \o (IF tok.val = <<>> THEN <<>> ELSE Tail(tok.val)))
      [] OTHER -> StrParts(tok.val)

\* ------------------------------------------------------------------------
\* castValue and preParseArgv
\* ------------------------------------------------------------------------

\* parts.filter(Boolean)
RECURSIVE NonEmpty(_)
NonEmpty(parts) ==
    IF parts = <<>> THEN <<>>
    ELSE (IF Head(parts) = "" THEN <<>> ELSE <<Head(parts)>>) \o NonEmpty(Tail(parts))

\* variant: the parts of a list are not checked against the choices
castValue_unfiltered(type, value, choices) ==
    IF type = "array" THEN Arr(NonEmpty(TrimAll(value.s)))
    ELSE IF type = "number"
    THEN (IF IsDefined(value) THEN NumberOf(value.s) ELSE Num("NaN"))
    ELSE IF type = "boolean"
    THEN Bool(value = Str("true"))
    ELSE value

\* castValue(type, value, choices): value is a string value or Undef
\* (args[i + 1] past the end of argv)
castValue(type, value, choices) ==
    IF type = "array"
    THEN IF choices # <<>>
         THEN Arr(FilterIn(NonEmpty(TrimAll(value.s)), Range(choices)))
         ELSE Arr(NonEmpty(TrimAll(value.s)))
    ELSE IF type = "number"
    THEN (IF IsDefined(value) THEN NumberOf(value.s) ELSE Num("NaN"))
    ELSE IF type = "boolean"
    THEN Bool(value = Str("true"))
    ELSE value

\* variant: the negated form is not recognised
MatchesDef_noNegation(arg, d) ==
    \/ arg.kind = "flag" /\ arg.name = d.base
    \/ arg.kind = "eq" /\ arg.name = d.base

\* does the token match one of the four flag forms of the definition
\* (negation, positive boolean, --flag=value, --flag value)
MatchesDef(arg, d) ==
    \/ arg.kind = "flag" /\ arg.name = <<"no">> \o d.base
    \/ arg.kind = "flag" /\ arg.name = d.base
    \/ arg.kind = "eq" /\ arg.name = d.base

\* index of the first definition the token matches, 0 when it matches none
RECURSIVE FirstMatch(_, _, _)
FirstMatch(arg, defs, k) ==
    IF k > Len(defs) THEN 0
    ELSE IF MatchesDef(arg, defs[k]) THEN k
    ELSE FirstMatch(arg, defs, k + 1)

\* the tokens after position i that a variadic flag collects: up to the
\* first token that starts with "--" or is not one of the declared choices
RECURSIVE Greedy(_, _, _)
Greedy(args, j, choices) ==
    IF j > Len(args) THEN <<>>
    ELSE IF StartsWithDashes(args[j]) THEN <<>>
    ELSE IF choices # <<>> /\ TextOf(args[j]) \notin Range(choices) THEN <<>>
    ELSE <<TextOf(args[j])>> \o Greedy(args, j + 1, choices)

\* variant: a list keeps every element it was given
MatchedValue_anyElement(arg, d, args, i) ==
    IF arg.kind = "flag" /\ arg.name = <<"no">> \o d.base THEN Bool(FALSE)
    ELSE IF arg.kind = "flag" /\ d.type = "boolean" THEN Bool(TRUE)
    ELSE IF arg.kind = "eq"
    THEN castValue(d.type, StrParts(arg.val), NoChoices)
    ELSE IF d.type = "array"
    THEN Arr(Greedy(args, i + 1, d.choices))
    ELSE castValue(d.type,
                   IF i + 1 <= Len(args) THEN TextValue(args[i + 1]) ELSE Undef,
                   NoChoices)

\* the value a matched definition gets from the token at position i
MatchedValue(arg, d, args, i) ==
    IF arg.kind = "flag" /\ arg.name = <<"no">> \o d.base THEN Bool(FALSE)
    ELSE IF arg.kind = "flag" /\ d.type = "boolean" THEN Bool(TRUE)
    ELSE IF arg.kind = "eq"
    THEN (IF d.type = "array"
          THEN castValue("array", StrParts(arg.val), d.choices)
          ELSE castValue(d.type, StrParts(arg.val), NoChoices))
    ELSE IF d.type = "array"
    THEN (IF d.choices # <<>>
          THEN Arr(FilterIn(Greedy(args, i + 1, d.choices), Range(d.choices)))
          ELSE Arr(Greedy(args, i + 1, d.choices)))
    ELSE castValue(d.type,
                   IF i + 1 <= Len(args) THEN TextValue(args[i + 1]) ELSE Undef,
                   NoChoices)

\* variant: a matched flag claims no following token
Claimed_none(arg, d, args, i) == 0

\* variant: a value option does not claim a token that starts with "--"
Claimed_unlessFlag(arg, d, args, i) ==
    IF arg.kind = "flag" /\ arg.name = d.base /\ d.type # "boolean"
    THEN (IF d.type = "array" THEN Len(Greedy(args, i + 1, d.choices))
          ELSE IF i + 1 <= Len(args) /\ StartsWithDashes(args[i + 1]) THEN 0
          ELSE 1)
    ELSE 0

\* the number of following tokens the matched form claims
Claimed(arg, d, args, i) ==
    IF arg.kind = "flag" /\ arg.name = d.base /\ d.type # "boolean"
    THEN (IF d.type = "array" THEN Len(Greedy(args, i + 1, d.choices)) ELSE 1)
    ELSE 0

\* the scan of preParseArgv from position i on; result maps keys to values
\* (Absent for a key that was not set), remaining lists the unmatched tokens
RECURSIVE Scan(_, _, _, _, _)
Scan(args, defs, i, result, remaining) ==
    IF i > Len(args) THEN [result |-> result, remaining |-> remaining]
    ELSE LET arg == args[i]
             k == FirstMatch(arg, defs, 1)
         IN IF k = 0
            THEN Scan(args, defs, i + 1, result, Append(remaining, arg))
            ELSE LET d == defs[k]
                     key == CamelKey(d.base)
                 IN Scan(args, defs, i + 1 + Claimed(arg, d, args, i),
                         [result EXCEPT ![key] = MatchedValue(arg, d, args, i)],
                         remaining)

\* ------------------------------------------------------------------------
\* Keys, objects and providers
\* ------------------------------------------------------------------------

\* the keys the action seeds collected with
SeedKeys == {"name", "subcommand", "dryRun", "force"}

\* the option keys of the table-driven providers
TableKeys == {"a", "b"}

\* the option keys of the provider whose key differs from its flag
KeyedKeys == {"pm", "lockfile"}

\* the option keys of the providers of the model
OptionKeys == {"version", "ssr", "aiConfig"} \cup TableKeys \cup KeyedKeys

\* the camelCase names of flags that are no option key
FlagKeys == {"packageManager"}

Keys == SeedKeys \cup OptionKeys \cup FlagKeys

EmptyObject == [k \in Keys |-> Absent]

\* variant: the parsed values are not merged
Spread_keepLeft(left, right) == left

\* { ...left, ...right }
Spread(left, right) ==
    [k \in Keys |-> IF right[k] = Absent THEN left[k] ELSE right[k]]

\* preParseArgv(defs) on the process argument vector (its first two
\* entries, node and the script path, are skipped and not part of args)
preParseArgv(defs, args) == Scan(args, defs, 1, EmptyObject, <<>>).result

\* Object.keys(schema)
KeysOf(defs) == {defs[i].key : i \in 1..Len(defs)}

\* the angular starter: its version-gated options
versionDef ==
    Def("version", <<"version">>, "string", TRUE,
        <<"21", "20", "19", "18">>, Str("21"), FALSE)

ssrDef == Def("ssr", <<"ssr">>, "boolean", FALSE, NoChoices, Undef, FALSE)

aiConfigDef ==
    Def("aiConfig", <<"ai", "config">>, "array", TRUE, NoChoices, Undef, FALSE)

\* variant: aiConfig is offered for every version
AiConfigVersions_all == {Num("21"), Num("20"), Num("19"), Num("18")}

\* SUPPORTED_VERSIONS.aiConfig
AiConfigVersions == {Num("21"), Num("20")}

angularGetOptions(options) ==
    IF Falsy(options["version"]) THEN <<versionDef>>
    ELSE LET major == NumberOf(StringOf(options["version"]))
         IN <<versionDef, ssrDef>>
            \o (IF major \in AiConfigVersions THEN <<aiConfigDef>> ELSE <<>>)

\* a provider given by a table: the keys of its schema are a function of
\* which of its keys already have a value.  Option a is a plain text
\* option, option b is required and has no default.
aDef == Def("a", <<"a">>, "string", TRUE, NoChoices, Undef, FALSE)

bDef == Def("b", <<"b">>, "string", TRUE, NoChoices, Undef, TRUE)

TableProviders == [SUBSET TableKeys -> SUBSET TableKeys]

tableGetOptions(tbl, options) ==
    LET have == {k \in TableKeys : IsDefined(options[k])}
        ks == tbl[have]
    IN (IF "a" \in ks THEN <<aDef>> ELSE <<>>)
       \o (IF "b" \in ks THEN <<bDef>> ELSE <<>>)

\* a provider whose option key pm is not the camelCase of its flag
\* --package-manager <value>; once options.pm has a value it offers lockfile
pmDef == Def("pm", <<"package", "manager">>, "string", TRUE, NoChoices, Undef, FALSE)

lockfileDef ==
    Def("lockfile", <<"lockfile">>, "boolean", FALSE, NoChoices, Undef, FALSE)

keyedGetOptions(options) ==
    IF Falsy(options["pm"]) THEN <<pmDef>> ELSE <<pmDef, lockfileDef>>

Providers ==
    {[kind |-> "angular", tbl |-> [h \in SUBSET TableKeys |-> {}]]}
    \cup {[kind |-> "keyed", tbl |-> [h \in SUBSET TableKeys |-> {}]]}
    \cup {[kind |-> "table", tbl |-> t] : t \in TableProviders}

\* plugin.getOptions(options)
getOptions(p, options) ==
    IF p.kind = "angular" THEN angularGetOptions(options)
    ELSE IF p.kind = "keyed" THEN keyedGetOptions(options)
    ELSE tableGetOptions(p.tbl, options)

\* the option keys a provider can ever declare
DeclaredKeys(p) ==
    IF p.kind = "angular" THEN {"version", "ssr", "aiConfig"}
    ELSE IF p.kind = "keyed" THEN KeyedKeys
    ELSE UNION {p.tbl[h] : h \in SUBSET TableKeys}

\* the command lines of the model, after "node cli"
CommandPrefix(p) ==
    <<Word("new"),
      Word(IF p.kind = "angular" THEN "angular"
           ELSE IF p.kind = "keyed" THEN "keyed" ELSE "tpl"),
      Word("myapp")>>

AngularArgvs ==
    { <<>>,
      <<Flag(<<"version">>), Word("18")>>,
      <<Flag(<<"version">>), Word("21")>>,
      <<Flag(<<"version">>), Word("21"), Flag(<<"ai", "config">>), Word("claude")>>,
      <<Eq(<<"version">>, <<"20">>), Flag(<<"ssr">>), Flag(<<"force">>)>> }

TableArgvs ==
    { <<>>,
      <<Flag(<<"a">>), Word("x")>>,
      <<Flag(<<"b">>), Word("y")>>,
      <<Flag(<<"a">>), Word("x"), Eq(<<"b">>, <<"y">>)>>,
      <<Flag(<<"a">>), Flag(<<"b">>), Word("y")>> }

KeyedArgvs ==
    { <<>>,
      <<Flag(<<"package", "manager">>), Word("npm")>>,
      <<Eq(<<"package", "manager">>, <<"pnpm">>), Flag(<<"lockfile">>)>> }

ArgvsOf(p) ==
    {CommandPrefix(p) \o tail :
        tail \in (IF p.kind = "angular" THEN AngularArgvs
                  ELSE IF p.kind = "keyed" THEN KeyedArgvs ELSE TableArgvs)}

\* ------------------------------------------------------------------------
\* The prompts.  An answer is the line the user typed, in comma-separated
\* parts; the empty line is <<"">>.
\* ------------------------------------------------------------------------

\* !answer.trim()
IsBlank(answer) == Len(answer) = 1 /\ Trim(answer[1]) = ""

\* answer.trim() as parts: the ends of the line are trimmed
TrimLine(answer) ==
    IF Len(answer) = 1 THEN <<Trim(answer[1])>> ELSE TrimAll(answer)

\* text.toLowerCase().startsWith('y')
StartsWithY(parts) == parts[1] \in {"y", "Y", "yes", "Yes"}

\* variant: an exact match is tried before the index
promptSelect_literalFirst(choices, defaultValue, answer) ==
    LET items == choices
        fallback == IF IsDefined(defaultValue) THEN StrParts(StringOf(defaultValue))
                    ELSE Str(items[1])
        idx == IntOf(Trim(answer[1]))
    IN IF IsBlank(answer) THEN fallback
       ELSE IF Len(answer) = 1 /\ Trim(answer[1]) \in Range(items)
       THEN Str(Trim(answer[1]))
       ELSE IF idx >= 1 /\ idx <= Len(items) THEN Str(items[idx])
       ELSE fallback

promptSelect(choices, defaultValue, answer) ==
    LET items == choices
        fallback == IF IsDefined(defaultValue) THEN StrParts(StringOf(defaultValue))
                    ELSE Str(items[1])
        idx == IntOf(Trim(answer[1]))
    IN IF IsBlank(answer) THEN fallback
       ELSE IF idx >= 1 /\ idx <= Len(items) THEN Str(items[idx])
       ELSE IF Len(answer) = 1 /\ Trim(answer[1]) \in Range(items)
       THEN Str(Trim(answer[1]))
       ELSE fallback

promptConfirm(defaultValue, answer) ==
    IF IsBlank(answer) THEN Bool(defaultValue # Bool(FALSE))
    ELSE Bool(StartsWithY(TrimLine(answer)))

promptInput(defaultValue, answer) ==
    IF ~IsBlank(answer) THEN StrParts(TrimLine(answer))
    ELSE IF IsDefined(defaultValue) THEN StrParts(StringOf(defaultValue))
    ELSE Str("")

isBooleanFlag(opt) == ~opt.arg /\ opt.choices = <<>>

\* variant: the choices are tested before the array type
promptForOption_choicesFirst(def, answer) ==
    IF def.choices # <<>>
    THEN promptSelect(def.choices, def.dflt, answer)
    ELSE IF def.type = "array"
    THEN LET defaultStr == IF IsDefined(def.dflt) THEN def.dflt.s ELSE <<"">>
             raw == IF IsBlank(answer) THEN defaultStr ELSE answer
         IN Arr(NonEmpty(TrimAll(raw)))
    ELSE IF isBooleanFlag(def)
    THEN promptConfirm(def.dflt, answer)
    ELSE promptInput(def.dflt, answer)

promptForOption(def, answer) ==
    IF def.type = "array"
    THEN LET defaultStr == IF IsDefined(def.dflt) THEN def.dflt.s ELSE <<"">>
             raw == IF IsBlank(answer) THEN defaultStr ELSE answer
             parts == NonEmpty(TrimAll(raw))
         IN IF def.choices # <<>>
            THEN Arr(FilterIn(parts, Range(def.choices)))
            ELSE Arr(parts)
    ELSE IF def.choices # <<>>
    THEN promptSelect(def.choices, def.dflt, answer)
    ELSE IF isBooleanFlag(def)
    THEN promptConfirm(def.dflt, answer)
    ELSE promptInput(def.dflt, answer)

\* the lines a user types at a prompt
Answers == { <<"">>, <<"x">>, <<"yes">>, <<"p", " q">> }

\* ------------------------------------------------------------------------
\* The command-line parser the options are registered with (Commander):
\* what the action receives as cliOpts for the registered definitions
\* ------------------------------------------------------------------------

\* .option('--dry-run') .option('--no-dry-run') .option('--force') .option('--no-force')
dryRunDef == Def("dryRun", <<"dry", "run">>, "boolean", FALSE, NoChoices, Undef, FALSE)

forceDef == Def("force", <<"force">>, "boolean", FALSE, NoChoices, Undef, FALSE)

\* registerOption: the default the option is registered with
RegisteredDefault(def) ==
    IF ~IsDefined(def.dflt) THEN Absent
    ELSE IF def.type = "array" /\ def.dflt.t # "array" THEN Arr(<<>>)
    ELSE def.dflt

\* index of the first registered option with the long flag, 0 for none
RECURSIVE FindOption(_, _, _)
FindOption(name, defs, k) ==
    IF k > Len(defs) THEN 0
    ELSE IF defs[k].base = name THEN k
    ELSE FindOption(name, defs, k + 1)

\* the parse of the known options; unknown tokens are passed over
\* (allowUnknownOption); a value option stores the text of its argument
RECURSIVE CommanderScan(_, _, _, _)
CommanderScan(args, defs, i, opts) ==
    IF i > Len(args) THEN opts
    ELSE LET arg == args[i]
             k == IF arg.kind = "word" THEN 0 ELSE FindOption(arg.name, defs, 1)
         IN IF arg.kind = "flag" /\ arg.name \in {<<"no", "dry", "run">>, <<"no", "force">>}
            THEN CommanderScan(args, defs, i + 1,
                               [opts EXCEPT ![CamelKey(Tail(arg.name))] = Bool(FALSE)])
            ELSE IF k = 0 THEN CommanderScan(args, defs, i + 1, opts)
            ELSE IF arg.kind = "flag" /\ ~defs[k].arg
            THEN CommanderScan(args, defs, i + 1,
                               [opts EXCEPT ![CamelKey(defs[k].base)] = Bool(TRUE)])
            ELSE IF arg.kind = "flag" /\ i + 1 <= Len(args)
            THEN CommanderScan(args, defs, i + 2,
                               [opts EXCEPT ![CamelKey(defs[k].base)] = TextValue(args[i + 1])])
            ELSE IF arg.kind = "eq" /\ defs[k].arg
            THEN CommanderScan(args, defs, i + 1,
                               [opts EXCEPT ![CamelKey(defs[k].base)] = StrParts(arg.val)])
            ELSE CommanderScan(args, defs, i + 1, opts)

\* the options object after the parse: defaults, then the values of argv
CommanderOpts(regDefs, args) ==
    LET defs == <<dryRunDef, forceDef>> \o regDefs
        defaults == [k \in Keys |->
                        IF \E i \in 1..Len(regDefs) : CamelKey(regDefs[i].base) = k
                        THEN RegisteredDefault(
                                regDefs[CHOOSE i \in 1..Len(regDefs) :
                                            CamelKey(regDefs[i].base) = k])
                        ELSE Absent]
    IN CommanderScan(args, defs, 1, defaults)

\* the parse fails before the action runs: a value outside the registered
\* choices, or a mandatory option without a value
CommanderRejects(regDefs, opts) ==
    \E i \in 1..Len(regDefs) :
        LET d == regDefs[i]
            v == opts[CamelKey(d.base)]
        IN \/ d.required /\ ~IsDefined(v)
           \/ d.choices # <<>> /\ IsDefined(v) /\ v.t = "string"
              /\ ~(Len(v.s) = 1 /\ v.s[1] \in Range(d.choices))

\* ------------------------------------------------------------------------
\* The inputs preParseArgv, castValue and the prompts are exercised on by
\* themselves: schemas, command lines over small pools of tokens, answers
\* ------------------------------------------------------------------------

\* longest command line drawn from the pool of the variadic option
MaxArgs == 5

\* longest command line drawn from the other pools
MaxShortArgs == 3

\* the keys preParseArgv can store under for these schemas
ParseKeys ==
    {"opt", "other", "style", "level", "strict", "flag", "tag", "cache", "noCache", "pick", "tags"}

\* const result: Record<string, unknown> = {}
EmptyResult == [k \in ParseKeys |-> Absent]

\* a variadic option with choices: --opt <values...>
optDef == Def("opt", <<"opt">>, "array", TRUE, <<"a", "b", "c">>, Undef, FALSE)

otherDef == Def("other", <<"other">>, "boolean", FALSE, NoChoices, Undef, FALSE)

\* scalar options with choices: --style <v>, --level <n>, --strict <v>
styleDef ==
    Def("style", <<"style">>, "string", TRUE, <<"css", "scss">>, Str("css"), FALSE)

levelDef == Def("level", <<"level">>, "number", TRUE, <<"1", "2">>, Undef, FALSE)

strictDef ==
    Def("strict", <<"strict">>, "boolean", TRUE, <<"true", "false">>, Undef, FALSE)

\* a boolean option that is on by default: --flag
flagDef == Def("flag", <<"flag">>, "boolean", FALSE, NoChoices, Bool(TRUE), FALSE)

\* a plain text option: --tag <v>
tagDef == Def("tag", <<"tag">>, "string", TRUE, NoChoices, Undef, FALSE)

\* two boolean options, the flag of one spelled as the negation of the
\* other: --cache and --no-cache
cacheDef == Def("cache", <<"cache">>, "boolean", FALSE, NoChoices, Undef, FALSE)

noCacheDef ==
    Def("noCache", <<"no", "cache">>, "boolean", FALSE, NoChoices, Undef, FALSE)

\* all sequences of at most n tokens of a pool
SeqsUpTo(pool, n) == UNION {[1..k -> pool] : k \in 0..n}

ArrayPool ==
    { Flag(<<"opt">>), Eq(<<"opt">>, <<"a", "b", "x">>), Word("a"), Word("b"),
      Word("x"), Flag(<<"other">>) }

ScalarPool ==
    { Flag(<<"style">>), Eq(<<"style">>, <<"scss">>), Eq(<<"style">>, <<"less">>),
      Word("scss"), Word("less"), Flag(<<"level">>), Eq(<<"level">>, <<"3">>),
      Word("3") }

BooleanPool ==
    { Flag(<<"flag">>), Flag(<<"no", "flag">>), Eq(<<"flag">>, <<"true">>),
      Flag(<<"tag">>), Word("w") }

AmbiguousPool ==
    { Flag(<<"cache">>), Flag(<<"no", "cache">>), Flag(<<"no", "no", "cache">>),
      Word("w") }

NegationPool ==
    { Flag(<<"no", "style">>), Flag(<<"no", "level">>), Flag(<<"no", "opt">>),
      Flag(<<"style">>), Word("css") }

\* the lines typed at the prompt of an option with choices
SelectAnswers ==
    { <<"">>, <<"1">>, <<"2">>, <<"3">>, <<"css">>, <<"scss">>, <<"true">>,
      <<"false">>, <<"a">>, <<"b", "c">>, <<"2x">>, <<"x">>, <<"yes">> }

\* no option was asked for
NotAsked == [key |-> "", answer |-> <<>>, value |-> Absent]

\* the options with choices, each given on the command line as --flag=v
\* for a member v of its choices
ChoiceDefs == {optDef, styleDef, levelDef, strictDef}

RoundTripInputs ==
    {[defs |-> <<d>>, args |-> <<Eq(d.base, <<d.choices[n]>>)>>,
      answers |-> SelectAnswers] :
        <<d, n>> \in {<<dd, nn>> \in ChoiceDefs \X (1..3) : nn <= Len(dd.choices)}}

\* a text option whose choices are numerals, listed as 1) 2  2) 1
pickDef == Def("pick", <<"pick">>, "string", TRUE, <<"2", "1">>, Undef, FALSE)

\* a list option without choices
tagsDef == Def("tags", <<"tags">>, "array", TRUE, NoChoices, Undef, FALSE)

\* the options promptForOption is called for by itself
PromptDefs ==
    {optDef, styleDef, levelDef, strictDef, pickDef, flagDef, tagDef,
     tagsDef, otherDef}

PromptInputs ==
    {[defs |-> <<d>>, args |-> <<>>, answers |-> SelectAnswers] : d \in PromptDefs}

ParseInputs ==
    {[defs |-> <<optDef, otherDef>>, args |-> a, answers |-> {}] :
        a \in SeqsUpTo(ArrayPool, MaxArgs)}
    \cup {[defs |-> <<styleDef, levelDef>>, args |-> a, answers |-> {}] :
            a \in SeqsUpTo(ScalarPool, MaxShortArgs)}
    \cup {[defs |-> <<flagDef, tagDef>>, args |-> a, answers |-> {}] :
            a \in SeqsUpTo(BooleanPool, MaxShortArgs)}
    \cup {[defs |-> d, args |-> a, answers |-> {}] :
            d \in {<<cacheDef, noCacheDef>>, <<noCacheDef, cacheDef>>},
            a \in SeqsUpTo(AmbiguousPool, MaxShortArgs)}
    \cup {[defs |-> <<styleDef, levelDef, optDef>>, args |-> a, answers |-> {}] :
            a \in SeqsUpTo(NegationPool, MaxShortArgs)}
    \cup RoundTripInputs
    \cup PromptInputs

\* ------------------------------------------------------------------------
\* The config files (cli/src/config.ts).  A file is missing or holds a
\* JSON object whose plugins key may be absent; only the plugins key is
\* kept, the packages key is handled the same way by its own functions.
\* ------------------------------------------------------------------------

\* the places a config file can be at: the working directory, a directory
\* above it and the home directory (GLOBAL_CONFIG_PATH)
Paths == {"cwd", "parent", "home"}

Missing == [exists |-> FALSE, hasPlugins |-> FALSE, plugins |-> <<>>]

\* a file holding {} (no plugins key) or { plugins: [...] }
ConfigFile(hasPlugins, plugins) ==
    [exists |-> TRUE, hasPlugins |-> hasPlugins, plugins |-> plugins]

\* the glob patterns of the calls: the one initConfig writes and another
DefaultGlob == "./plugins/**"

Globs == {DefaultGlob, "./custom/**"}

\* longest plugins list of a file that exists before the first call
MaxGlobs == 2

\* the content of a file before the first call
InitialFiles ==
    {Missing, ConfigFile(FALSE, <<>>)}
    \cup {ConfigFile(TRUE, list) : list \in SeqsUpTo(Globs, MaxGlobs)}

\* the record of a call: its arguments, how it ended ("ok" or the error),
\* the file it resolved ("null" for none), that file's content and the
\* result of listPluginGlobs(path) before the call
CallRecord(op, glob, path, outcome, target, fileBefore, before) ==
    [op |-> op, glob |-> glob, path |-> path, outcome |-> outcome,
     target |-> target, fileBefore |-> fileBefore, before |-> before]

NoCall == CallRecord("none", "", "", "", "null", Missing, <<>>)

\* the directories findConfigPath looks in, from the working directory up
LookupChain(above) ==
    <<"cwd", "parent">> \o (IF above THEN <<"home">> ELSE <<>>)

\* findConfigPath(): the nearest config file on the way up, "null" for none
findConfigPath(fs, above) ==
    LET chain == LookupChain(above)
        found == {n \in 1..Len(chain) : fs[chain[n]].exists}
    IN IF found = {} THEN "null"
       ELSE chain[CHOOSE n \in found : \A m \in found : n <= m]

\* getDefaultConfigPath()
getDefaultConfigPath == "cwd"

\* loadRawConfig(configPath): {} for a missing file
loadRawConfig(fs, configPath) ==
    IF fs[configPath].exists
    THEN [hasPlugins |-> fs[configPath].hasPlugins, plugins |-> fs[configPath].plugins]
    ELSE [hasPlugins |-> FALSE, plugins |-> <<>>]

\* variant: the global keys override the local ones
MergeConfig_globalWins(globalConfig, localConfig) ==
    IF globalConfig.hasPlugins THEN globalConfig ELSE localConfig

\* { ...globalConfig, ...localConfig }
MergeConfig(globalConfig, localConfig) ==
    IF localConfig.hasPlugins THEN localConfig ELSE globalConfig

\* loadConfig(configPath); configPath is "none" when it is not given
loadConfig(fs, above, configPath) ==
    IF configPath # "none" THEN loadRawConfig(fs, configPath)
    ELSE LET localPath == findConfigPath(fs, above)
         IN MergeConfig(loadRawConfig(fs, "home"),
                        IF localPath # "null" THEN loadRawConfig(fs, localPath)
                        ELSE [hasPlugins |-> FALSE, plugins |-> <<>>])

\* listPluginGlobs(configPath): config.plugins ?? []
listPluginGlobs(fs, above, configPath) ==
    LET config == loadConfig(fs, above, configPath)
    IN IF config.hasPlugins THEN config.plugins ELSE <<>>

\* saveConfig(config, configPath): the file system after the write
saveConfig(fs, config, configPath) ==
    [fs EXCEPT ![configPath] = ConfigFile(config.hasPlugins, config.plugins)]

\* variant: no pattern is ever found in a list
Includes_never(list, glob) == FALSE

\* list.includes(glob)
Includes(list, glob) == glob \in Range(list)

\* list.filter(p => p !== glob)
RECURSIVE Without(_, _)
Without(list, glob) ==
    IF list = <<>> THEN <<>>
    ELSE (IF Head(list) = glob THEN <<>> ELSE <<Head(list)>>) \o Without(Tail(list), glob)


\* ------------------------------------------------------------------------
\* State
\* ------------------------------------------------------------------------

VARIABLES
    provider,       \* the plugin the command is registered for
    argv,           \* process.argv after "node cli"
    pc,             \* where registerPluginCommand / the action stands
    optionDefs,     \* the schema of the latest getOptions call
    preCollected,   \* registration: the provisional values
    previousKeys,   \* registration: the keys of the previous schema
    regRounds,      \* registration: completed rounds of the loop
    regSeen,        \* registration: keys of every schema returned
    registered,     \* the definitions registered as flags of the command
    cliOpts,        \* the options object the action receives
    collected,      \* the action's collected map
    idx,            \* resolveOptions: position in Object.entries(optionDefs)
    hasNewOptions,  \* resolveOptions: the flag of the current pass
    rl,             \* the module's readline interface: "null" or "open"
    getOptionsCalls,\* getOptions calls of the session
    prompted,       \* keys a prompt was shown for, in order
    blankAnswered,  \* keys whose prompt was answered with an empty line
    sessionSeen,    \* keys of every schema returned during the session
    seedState,      \* collected as the action seeded it
    resolvedLog,    \* the <<key, value>> assignments of resolveOptions
    callLogLen,     \* the length of resolvedLog at the latest getOptions call
    executeCalls,   \* calls of plugin.execute
    executeArg      \* the argument of the latest plugin.execute call

VARIABLES
    scanDefs,       \* preParseArgv: the definitions it is called with
    scanArgs,       \* preParseArgv: process.argv after "node cli"
    scanAnswers,    \* the lines a user may type when asked for an option
    scanPc,         \* preParseArgv: "scanning", "returned", then "asked"
    scanI,          \* preParseArgv: the loop variable i
    scanResult,     \* preParseArgv: result
    scanRemaining,  \* preParseArgv: remaining (after its first two entries)
    scanSource,     \* per key, the position of the token that last set it
    scanVisited,    \* the positions the for loop stood at, in order
    scanHandedBack, \* the argv the caller's parser goes on with after the call
    asked           \* the option asked for after the scan, and the outcome

VARIABLES
    files,          \* the config file at each path: missing, or its content
    homeAbove,      \* is the home directory the working directory's ancestor
    lastCall        \* the latest config call, its outcome, the list before it

scanVars == <<scanDefs, scanArgs, scanAnswers, scanPc, scanI, scanResult,
              scanRemaining, scanSource, scanVisited, scanHandedBack, asked>>

configVars == <<files, homeAbove, lastCall>>

\* the variables the command's registration and action leave alone
otherVars == <<scanVars, configVars>>

vars == <<provider, argv, pc, optionDefs, preCollected, previousKeys, regRounds,
          regSeen, registered, cliOpts, collected, idx, hasNewOptions, rl,
          getOptionsCalls, prompted, blankAnswered, sessionSeen, seedState,
          resolvedLog, callLogLen, executeCalls, executeArg, scanVars, configVars>>

regVars == <<optionDefs, preCollected, previousKeys, regRounds, regSeen, registered>>

sessionVars == <<cliOpts, collected, idx, hasNewOptions, rl, getOptionsCalls,
                 prompted, blankAnswered, sessionSeen, seedState, resolvedLog, callLogLen,
                 executeCalls, executeArg>>

\* preParseArgv is not running
ScanIdle ==
    /\ scanDefs = <<>>
    /\ scanArgs = <<>>
    /\ scanAnswers = {}
    /\ scanPc = "idle"
    /\ scanI = 0
    /\ scanResult = EmptyResult
    /\ scanRemaining = <<>>
    /\ scanSource = [k \in ParseKeys |-> 0]
    /\ scanVisited = <<>>
    /\ scanHandedBack = <<>>
    /\ asked = NotAsked

\* no config file and no config call
ConfigIdle ==
    /\ files = [p \in Paths |-> Missing]
    /\ homeAbove = FALSE
    /\ lastCall = NoCall

\* the state before registerPluginCommand is called for the plugin
Init ==
    /\ provider \in Providers
    /\ argv \in ArgvsOf(provider)
    /\ pc = "reg_start"
    /\ optionDefs = <<>>
    /\ preCollected = EmptyObject
    /\ previousKeys = {}
    /\ regRounds = 0
    /\ regSeen = {}
    /\ registered = <<>>
    /\ cliOpts = EmptyObject
    /\ collected = EmptyObject
    /\ idx = 0
    /\ hasNewOptions = FALSE
    /\ rl = "null"
    /\ getOptionsCalls = 0
    /\ prompted = <<>>
    /\ blankAnswered = {}
    /\ sessionSeen = {}
    /\ seedState = EmptyObject
    /\ resolvedLog = <<>>
    /\ callLogLen = 0
    /\ executeCalls = 0
    /\ executeArg = EmptyObject
    /\ ScanIdle
    /\ ConfigIdle

\* ------------------------------------------------------------------------
\* registerPluginCommand: the discovery loop and the flag registration
\* ------------------------------------------------------------------------

\* baseOpts = { name: '', subcommand }
baseOpts == [EmptyObject EXCEPT !["name"] = Str(""), !["subcommand"] = Undef]

\* the first getOptions call, with baseOpts
RegStart ==
    /\ pc = "reg_start"
    /\ optionDefs' = getOptions(provider, baseOpts)
    /\ preCollected' = baseOpts
    /\ previousKeys' = {}
    /\ regSeen' = KeysOf(optionDefs')
    /\ pc' = "reg_loop"
    /\ UNCHANGED <<otherVars, provider, argv, regRounds, registered>>
    /\ UNCHANGED sessionVars

\* newKeys of the loop: the keys of the schema that previousKeys lacks
newKeys == KeysOf(optionDefs) \ previousKeys

\* the previousKeys of the next round
NextPreviousKeys(current, previous) == current

\* one round of the loop: pre-parse argv with the current schema, merge,
\* and ask the provider again
RegRound ==
    /\ pc = "reg_loop"
    /\ newKeys # {}
    /\ regRounds < MaxRounds
    /\ preCollected' = Spread(preCollected, preParseArgv(optionDefs, argv))
    /\ previousKeys' = NextPreviousKeys(KeysOf(optionDefs), previousKeys)
    /\ optionDefs' = getOptions(provider, preCollected')
    /\ regSeen' = regSeen \cup KeysOf(optionDefs')
    /\ regRounds' = regRounds + 1
    /\ UNCHANGED <<otherVars, provider, argv, pc, registered>>
    /\ UNCHANGED sessionVars

\* a getOptions call of the registration rejects: registerPluginCommand throws
RegReject ==
    /\ pc \in {"reg_start", "reg_loop"}
    /\ pc = "reg_loop" => newKeys # {}
    /\ pc' = "reg_failed"
    /\ UNCHANGED <<otherVars, provider, argv>>
    /\ UNCHANGED regVars
    /\ UNCHANGED sessionVars

\* the definitions registerOption is called for
RegisteredDefs(defs) == defs

\* the loop ends (no new key) and the last schema is registered
RegDone ==
    /\ pc = "reg_loop"
    /\ newKeys = {}
    /\ registered' = RegisteredDefs(optionDefs)
    /\ pc' = "registered"
    /\ UNCHANGED <<otherVars, provider, argv, optionDefs, preCollected, previousKeys,
                   regRounds, regSeen>>
    /\ UNCHANGED sessionVars

\* ------------------------------------------------------------------------
\* The command's action: seed, resolveOptions, closeRL, execute
\* ------------------------------------------------------------------------

\* the keys of the registered options that argv and the defaults leave
\* without a value
Unfilled(opts) ==
    {CamelKey(registered[i].base) : i \in 1..Len(registered)}
        \cap {k \in Keys : ~IsDefined(opts[k])}

\* the options object handed to the action: the parse of argv, and, for
\* any of the options left without a value, a value the interactive
\* command-line parser asked for itself
ActionInputs ==
    LET parsed == CommanderOpts(registered, argv)
    IN {[k \in Keys |-> IF k \in fill THEN Str("i") ELSE parsed[k]] :
            fill \in SUBSET Unfilled(parsed)}

\* the map the action starts from
Seed(name, opts) ==
    [EmptyObject EXCEPT !["name"] = name,
                        !["subcommand"] = Undef,
                        !["dryRun"] = IF IsDefined(opts["dryRun"]) THEN opts["dryRun"] ELSE Undef,
                        !["force"] = IF IsDefined(opts["force"]) THEN opts["force"] ELSE Undef]

\* the parser rejects the command line and the action never runs
CommanderError ==
    /\ pc = "registered"
    /\ \E opts \in ActionInputs : CommanderRejects(registered, opts)
    /\ pc' = "cmd_error"
    /\ UNCHANGED <<otherVars, provider, argv>>
    /\ UNCHANGED regVars
    /\ UNCHANGED sessionVars

\* sub.action(async (name, cliOpts) => { const collected = {...}; ...
ActionStart ==
    /\ pc = "registered"
    /\ \E opts \in ActionInputs :
        /\ ~CommanderRejects(registered, opts)
        /\ cliOpts' = opts
        /\ collected' = Seed(Str("myapp"), opts)
    /\ seedState' = collected'
    /\ pc' = "resolve_get"
    /\ UNCHANGED <<otherVars, provider, argv, idx, hasNewOptions, rl, getOptionsCalls,
                   prompted, blankAnswered, sessionSeen, resolvedLog, callLogLen,
                   executeCalls, executeArg>>
    /\ UNCHANGED regVars

\* top of the while loop: optionDefs = await plugin.getOptions(collected)
ResolveGetOptions ==
    /\ pc = "resolve_get"
    /\ getOptionsCalls < MaxCalls
    /\ optionDefs' = getOptions(provider, collected)
    /\ getOptionsCalls' = getOptionsCalls + 1
    /\ sessionSeen' = sessionSeen \cup KeysOf(optionDefs')
    /\ idx' = 1
    /\ callLogLen' = Len(resolvedLog)
    /\ hasNewOptions' = FALSE
    /\ pc' = "resolve_iter"
    /\ UNCHANGED <<otherVars, provider, argv, preCollected, previousKeys, regRounds, regSeen,
                   registered, cliOpts, collected, rl, prompted, blankAnswered,
                   seedState, resolvedLog, executeCalls, executeArg>>

\* the getOptions call rejects: resolveOptions and the action throw
ResolveReject ==
    /\ pc = "resolve_get"
    /\ getOptionsCalls < MaxCalls
    /\ getOptionsCalls' = getOptionsCalls + 1
    /\ pc' = "failed"
    /\ UNCHANGED <<otherVars, provider, argv, cliOpts, collected, idx, hasNewOptions, rl,
                   prompted, blankAnswered, sessionSeen, seedState, resolvedLog, callLogLen,
                   executeCalls, executeArg>>
    /\ UNCHANGED regVars

\* the entry the for loop stands at
CurrentDef == optionDefs[idx]

\* variant: the loop does not skip keys that already have a value
AlreadyCollected_never(state, key) == FALSE

\* if (collected[key] !== undefined) continue
AlreadyCollected(state, key) == IsDefined(state[key])

ResolveSkip ==
    /\ pc = "resolve_iter"
    /\ idx <= Len(optionDefs)
    /\ AlreadyCollected(collected, CurrentDef.key)
    /\ idx' = idx + 1
    /\ UNCHANGED <<otherVars, provider, argv, pc, cliOpts, collected, hasNewOptions, rl,
                   getOptionsCalls, prompted, blankAnswered, sessionSeen,
                   seedState, resolvedLog, callLogLen, executeCalls, executeArg>>
    /\ UNCHANGED regVars

\* variant: the assignment is lost
Assign_dropped(state, key, value) == state

\* collected[key] = value
Assign(state, key, value) == [state EXCEPT ![key] = value]

\* collected[key] = cliOpts[key]
ResolveFromCli ==
    /\ pc = "resolve_iter"
    /\ idx <= Len(optionDefs)
    /\ ~AlreadyCollected(collected, CurrentDef.key)
    /\ IsDefined(cliOpts[CurrentDef.key])
    /\ hasNewOptions' = TRUE
    /\ collected' = Assign(collected, CurrentDef.key, cliOpts[CurrentDef.key])
    /\ resolvedLog' = Append(resolvedLog, <<CurrentDef.key, cliOpts[CurrentDef.key]>>)
    /\ idx' = idx + 1
    /\ UNCHANGED <<otherVars, provider, argv, pc, cliOpts, rl, getOptionsCalls, prompted,
                   blankAnswered, sessionSeen, seedState, callLogLen, executeCalls, executeArg>>
    /\ UNCHANGED regVars

\* promptForOption is called: ask() opens the readline interface (getRL)
\* and the question is pending
ResolveAsk ==
    /\ pc = "resolve_iter"
    /\ idx <= Len(optionDefs)
    /\ ~AlreadyCollected(collected, CurrentDef.key)
    /\ ~IsDefined(cliOpts[CurrentDef.key])
    /\ hasNewOptions' = TRUE
    /\ rl' = "open"
    /\ prompted' = Append(prompted, CurrentDef.key)
    /\ pc' = "prompting"
    /\ UNCHANGED <<otherVars, provider, argv, cliOpts, collected, idx, getOptionsCalls,
                   blankAnswered, sessionSeen, seedState, resolvedLog, callLogLen,
                   executeCalls, executeArg>>
    /\ UNCHANGED regVars

\* the user answers the pending question: collected[key] = the prompt's result
PromptAnswer ==
    /\ pc = "prompting"
    /\ \E answer \in Answers :
        /\ collected' = Assign(collected, CurrentDef.key,
                               promptForOption(CurrentDef, answer))
        /\ resolvedLog' = Append(resolvedLog,
                                 <<CurrentDef.key, promptForOption(CurrentDef, answer)>>)
        /\ blankAnswered' = IF IsBlank(answer)
                            THEN blankAnswered \cup {CurrentDef.key}
                            ELSE blankAnswered
    /\ idx' = idx + 1
    /\ pc' = "resolve_iter"
    /\ UNCHANGED <<otherVars, provider, argv, cliOpts, hasNewOptions, rl, getOptionsCalls,
                   prompted, sessionSeen, seedState, callLogLen, executeCalls, executeArg>>
    /\ UNCHANGED regVars

\* an external interrupt ends the process while the question is pending;
\* no code of the session runs any more
Interrupt ==
    /\ pc = "prompting"
    /\ pc' = "aborted"
    /\ UNCHANGED <<otherVars, provider, argv>>
    /\ UNCHANGED regVars
    /\ UNCHANGED sessionVars

\* variant: the loop ends after its first pass
LoopEnds_firstPass(hasNew) == TRUE

\* if (!hasNewOptions) break
LoopEnds(hasNew) == ~hasNew

\* end of the for loop with hasNewOptions set: next pass of the while loop
NextPass ==
    /\ pc = "resolve_iter"
    /\ idx > Len(optionDefs)
    /\ ~LoopEnds(hasNewOptions)
    /\ pc' = "resolve_get"
    /\ UNCHANGED <<otherVars, provider, argv>>
    /\ UNCHANGED regVars
    /\ UNCHANGED sessionVars

\* if (!hasNewOptions) break: resolveOptions returns
ResolveReturn ==
    /\ pc = "resolve_iter"
    /\ idx > Len(optionDefs)
    /\ LoopEnds(hasNewOptions)
    /\ pc' = "resolved"
    /\ UNCHANGED <<otherVars, provider, argv>>
    /\ UNCHANGED regVars
    /\ UNCHANGED sessionVars

\* variant: the handle is left as it is
closeRL_keep(handle) == handle

\* closeRL(): rl?.close(); rl = null
closeRL(handle) == "null"

\* variant: the values of keys that the latest schema lacks are removed
AsExecuteOptions_lastSchema(state, defs) ==
    [k \in Keys |-> IF k \in SeedKeys \cup KeysOf(defs) THEN state[k] ELSE Absent]

\* collected as ScaffoldTemplatePluginOptions & Record<string, unknown>:
\* the type assertion leaves the object as it is
AsExecuteOptions(state, defs) == state

\* variant: the action passes the parsed command-line options instead
ExecuteArgument_cliOpts(state, opts) == opts

\* the argument the action passes to plugin.execute
ExecuteArgument(state, opts) == state

\* closeRL(); await plugin.execute(collected): execute starts
HandOff ==
    /\ pc = "resolved"
    /\ rl' = closeRL(rl)
    /\ executeCalls' = executeCalls + 1
    /\ executeArg' = ExecuteArgument(AsExecuteOptions(collected, optionDefs), cliOpts)
    /\ pc' = "executing"
    /\ UNCHANGED <<otherVars, provider, argv, cliOpts, collected, idx, hasNewOptions,
                   getOptionsCalls, prompted, blankAnswered, sessionSeen,
                   seedState, resolvedLog, callLogLen>>
    /\ UNCHANGED regVars

\* plugin.execute resolves: the action returns
ExecuteReturn ==
    /\ pc = "executing"
    /\ pc' = "done"
    /\ UNCHANGED <<otherVars, provider, argv>>
    /\ UNCHANGED regVars
    /\ UNCHANGED sessionVars

\* plugin.execute rejects: the action throws
ExecuteThrow ==
    /\ pc = "executing"
    /\ pc' = "failed"
    /\ UNCHANGED <<otherVars, provider, argv>>
    /\ UNCHANGED regVars
    /\ UNCHANGED sessionVars

Next ==
    \/ RegStart
    \/ RegRound
    \/ RegReject
    \/ RegDone
    \/ CommanderError
    \/ ActionStart
    \/ ResolveGetOptions
    \/ ResolveReject
    \/ ResolveSkip
    \/ ResolveFromCli
    \/ ResolveAsk
    \/ PromptAnswer
    \/ Interrupt
    \/ NextPass
    \/ ResolveReturn
    \/ HandOff
    \/ ExecuteReturn
    \/ ExecuteThrow

Spec == Init /\ [][Next]_vars

\* the action runs on: once resolveOptions has returned, closeRL and
\* execute follow without waiting for anything
FairSpec == Spec /\ WF_vars(HandOff)

\* the steps resolveOptions takes by itself
ResolveStep ==
    \/ ResolveGetOptions
    \/ ResolveSkip
    \/ ResolveFromCli
    \/ ResolveAsk
    \/ NextPass
    \/ ResolveReturn

\* resolveOptions runs on, and every question asked is answered (unless
\* the process is interrupted first)
ResolveFairSpec == Spec /\ WF_vars(ResolveStep) /\ WF_vars(PromptAnswer)

\* ------------------------------------------------------------------------
\* preParseArgv and the prompts on their own: the for loop of preParseArgv
\* one token at a time, then one option of the schema asked for
\* ------------------------------------------------------------------------

\* the variables of the command's registration and action
commandVars == <<provider, argv, pc, regVars, sessionVars>>

\* no command is being registered or run
SessionIdle ==
    /\ provider = [kind |-> "angular", tbl |-> [h \in SUBSET TableKeys |-> {}]]
    /\ argv = <<>>
    /\ pc = "idle"
    /\ optionDefs = <<>>
    /\ preCollected = EmptyObject
    /\ previousKeys = {}
    /\ regRounds = 0
    /\ regSeen = {}
    /\ registered = <<>>
    /\ cliOpts = EmptyObject
    /\ collected = EmptyObject
    /\ idx = 0
    /\ hasNewOptions = FALSE
    /\ rl = "null"
    /\ getOptionsCalls = 0
    /\ prompted = <<>>
    /\ blankAnswered = {}
    /\ sessionSeen = {}
    /\ seedState = EmptyObject
    /\ resolvedLog = <<>>
    /\ callLogLen = 0
    /\ executeCalls = 0
    /\ executeArg = EmptyObject

\* preParseArgv(defs) is called: result = {}, i = 2 (the first token after
\* "node cli")
ParseInit ==
    /\ \E input \in ParseInputs :
        /\ scanDefs = input.defs
        /\ scanArgs = input.args
        /\ scanAnswers = input.answers
    /\ scanPc = "scanning"
    /\ scanI = 1
    /\ scanResult = EmptyResult
    /\ scanRemaining = <<>>
    /\ scanSource = [k \in ParseKeys |-> 0]
    /\ scanVisited = <<>>
    /\ scanHandedBack = <<>>
    /\ asked = NotAsked
    /\ SessionIdle
    /\ ConfigIdle

\* one iteration of the for loop in which a definition matches the token
ScanMatch ==
    /\ scanPc = "scanning"
    /\ scanI <= Len(scanArgs)
    /\ FirstMatch(scanArgs[scanI], scanDefs, 1) # 0
    /\ LET arg == scanArgs[scanI]
           d == scanDefs[FirstMatch(arg, scanDefs, 1)]
           key == CamelKey(d.base)
       IN /\ scanResult' = [scanResult EXCEPT
                                ![key] = MatchedValue(arg, d, scanArgs, scanI)]
          /\ scanI' = scanI + 1 + Claimed(arg, d, scanArgs, scanI)
          /\ scanSource' = [scanSource EXCEPT ![key] = scanI]
    /\ scanVisited' = Append(scanVisited, scanI)
    /\ UNCHANGED <<scanDefs, scanArgs, scanAnswers, scanPc, scanRemaining,
                   scanHandedBack, asked>>
    /\ UNCHANGED <<commandVars, configVars>>

\* one iteration in which no definition matches: remaining.push(arg)
ScanUnmatched ==
    /\ scanPc = "scanning"
    /\ scanI <= Len(scanArgs)
    /\ FirstMatch(scanArgs[scanI], scanDefs, 1) = 0
    /\ scanRemaining' = Append(scanRemaining, scanArgs[scanI])
    /\ scanI' = scanI + 1
    /\ scanVisited' = Append(scanVisited, scanI)
    /\ UNCHANGED <<scanDefs, scanArgs, scanAnswers, scanPc, scanResult, scanSource,
                   scanHandedBack, asked>>
    /\ UNCHANGED <<commandVars, configVars>>

\* variant: the list of unmatched tokens replaces the argument vector
ResidualArgv_remaining(args, remaining) == remaining

\* what is left for the caller's parser: preParseArgv returns result only
\* and scans a copy of process.argv, so process.argv as it was
ResidualArgv(args, remaining) == args

\* the for loop ends: return result
ScanReturn ==
    /\ scanPc = "scanning"
    /\ scanI > Len(scanArgs)
    /\ scanPc' = "returned"
    /\ scanHandedBack' = ResidualArgv(scanArgs, scanRemaining)
    /\ UNCHANGED <<scanDefs, scanArgs, scanAnswers, scanI, scanResult,
                   scanRemaining, scanSource, scanVisited, asked>>
    /\ UNCHANGED <<commandVars, configVars>>

\* promptForOption(key, def) for an option of the schema, answered
AskOption ==
    /\ scanPc = "returned"
    /\ \E k \in 1..Len(scanDefs), answer \in scanAnswers :
        asked' = [key |-> scanDefs[k].key, answer |-> answer,
                  value |-> promptForOption(scanDefs[k], answer)]
    /\ scanPc' = "asked"
    /\ UNCHANGED <<scanDefs, scanArgs, scanAnswers, scanI, scanResult,
                   scanRemaining, scanSource, scanVisited, scanHandedBack>>
    /\ UNCHANGED <<commandVars, configVars>>

ParseNext ==
    \/ ScanMatch
    \/ ScanUnmatched
    \/ ScanReturn
    \/ AskOption

ParseSpec == ParseInit /\ [][ParseNext]_vars

\* ------------------------------------------------------------------------
\* The calls on the config files, one at a time
\* ------------------------------------------------------------------------

\* the config files as they are before the first call
ConfigInit ==
    /\ files \in [Paths -> InitialFiles]
    /\ homeAbove \in BOOLEAN
    /\ lastCall = NoCall
    /\ SessionIdle
    /\ ScanIdle

\* initConfig(configPath)
initConfig ==
    \E path \in Paths \cup {"none"} :
        LET resolvedPath == IF path # "none" THEN path ELSE getDefaultConfigPath
            before == listPluginGlobs(files, homeAbove, path)
        IN /\ IF files[resolvedPath].exists
              THEN /\ lastCall' = CallRecord("init", "", path, "already exists",
                                             resolvedPath, files[resolvedPath], before)
                   /\ UNCHANGED files
              ELSE /\ lastCall' = CallRecord("init", "", path, "ok",
                                             resolvedPath, files[resolvedPath], before)
                   /\ files' = saveConfig(files,
                                          [hasPlugins |-> TRUE, plugins |-> <<DefaultGlob>>],
                                          resolvedPath)
           /\ UNCHANGED <<homeAbove, commandVars, scanVars>>

\* addPluginGlob(glob, configPath)
addPluginGlob ==
    \E glob \in Globs, path \in Paths \cup {"none"} :
        LET found == findConfigPath(files, homeAbove)
            resolvedPath == IF path # "none" THEN path
                            ELSE IF found # "null" THEN found
                            ELSE getDefaultConfigPath
            config == loadRawConfig(files, resolvedPath)
            plugins == IF config.hasPlugins THEN config.plugins ELSE <<>>
            before == listPluginGlobs(files, homeAbove, path)
        IN /\ IF Includes(plugins, glob)
              THEN /\ lastCall' = CallRecord("add", glob, path, "already exists",
                                             resolvedPath, files[resolvedPath], before)
                   /\ UNCHANGED files
              ELSE /\ lastCall' = CallRecord("add", glob, path, "ok",
                                             resolvedPath, files[resolvedPath], before)
                   /\ files' = saveConfig(files,
                                          [hasPlugins |-> TRUE,
                                           plugins |-> Append(plugins, glob)],
                                          resolvedPath)
           /\ UNCHANGED <<homeAbove, commandVars, scanVars>>

\* removePluginGlob(glob, configPath)
removePluginGlob ==
    \E glob \in Globs, path \in Paths \cup {"none"} :
        LET resolvedPath == IF path # "none" THEN path
                            ELSE findConfigPath(files, homeAbove)
            before == listPluginGlobs(files, homeAbove, path)
        IN /\ IF resolvedPath = "null"
              THEN /\ lastCall' = CallRecord("remove", glob, path, "no config file",
                                             "null", Missing, before)
                   /\ UNCHANGED files
              ELSE LET config == loadRawConfig(files, resolvedPath)
                   IN IF ~config.hasPlugins \/ ~Includes(config.plugins, glob)
                      THEN /\ lastCall' = CallRecord("remove", glob, path, "not found",
                                                     resolvedPath, files[resolvedPath],
                                                     before)
                           /\ UNCHANGED files
                      ELSE /\ lastCall' = CallRecord("remove", glob, path, "ok",
                                                     resolvedPath, files[resolvedPath],
                                                     before)
                           /\ files' = saveConfig(files,
                                                  [hasPlugins |-> TRUE,
                                                   plugins |-> Without(config.plugins, glob)],
                                                  resolvedPath)
           /\ UNCHANGED <<homeAbove, commandVars, scanVars>>

ConfigNext ==
    \/ initConfig
    \/ addPluginGlob
    \/ removePluginGlob

ConfigSpec == ConfigInit /\ [][ConfigNext]_vars

\* ------------------------------------------------------------------------
\* Properties
\* ------------------------------------------------------------------------

\* a map after the assignments of a log, in order
RECURSIVE ApplyLog(_, _)
ApplyLog(state, log) ==
    IF log = <<>> THEN state
    ELSE ApplyLog([state EXCEPT ![Head(log)[1]] = Head(log)[2]], Tail(log))

\* C1: when option resolution completes without error, execute is invoked
\* exactly once, and its argument is the collected map as resolveOptions
\* left it: the seed keys name, subcommand, dryRun and force plus every
\* option resolved in the session.
C1_ExecuteOnceWithCollected ==
    /\ [](/\ executeCalls <= 1
          /\ pc \in {"executing", "done"} => executeCalls = 1
          /\ executeCalls = 1 =>
                /\ executeArg = collected
                /\ executeArg = ApplyLog(seedState, resolvedLog)
                /\ \A k \in SeedKeys : executeArg[k] # Absent
                /\ executeArg["name"] = Str("myapp"))
    /\ ((pc = "resolved") ~> (executeCalls = 1))

\* a session that resolved options from argv and from a prompt and was
\* handed to execute
C1_Witness ==
    /\ pc = "done"
    /\ executeCalls = 1
    /\ Len(resolvedLog) >= 2
    /\ prompted # <<>>

\* C2: execute is invoked only after the keyset has stabilized: the latest
\* getOptions call returned a schema all of whose keys already had a value
\* (no assignment was made since that call), and after execute has started
\* there is no further getOptions call and no further prompt.
C2_ExecuteAfterStabilized ==
    /\ [](executeCalls >= 1 =>
            /\ \A i \in 1..Len(optionDefs) : IsDefined(collected[optionDefs[i].key])
            /\ Len(resolvedLog) = callLogLen
            /\ pc \in {"executing", "done", "failed"})
    /\ [][executeCalls >= 1 =>
            /\ getOptionsCalls' = getOptionsCalls
            /\ prompted' = prompted]_vars

\* execute has started in a session whose schema grew after the first pass
C2_Witness ==
    /\ executeCalls = 1
    /\ getOptionsCalls >= 3
    /\ Len(optionDefs) >= 2

\* the definitions of the latest schema that are required, have no
\* default, got no value from the command line and whose prompt was
\* answered with an empty line
UnsatisfiedRequired ==
    {i \in 1..Len(optionDefs) :
        /\ optionDefs[i].required
        /\ ~IsDefined(optionDefs[i].dflt)
        /\ ~IsDefined(cliOpts[optionDefs[i].key])
        /\ optionDefs[i].key \in blankAnswered}

\* C3: if the stabilized schema has a required option without default
\* that neither argv nor its prompt gave a value, the session fails and
\* execute is never invoked.
C3_RequiredMissingFails ==
    (pc \in {"resolved", "executing", "done"} \/ executeCalls >= 1)
        => UnsatisfiedRequired = {}

\* C4: the registration-time discovery loop ends after at most as many
\* rounds as the provider declares distinct keys.
C4_RoundsBoundedByKeys ==
    regRounds <= Cardinality(DeclaredKeys(provider))

\* C5: once collected[key] holds a defined value, no later step of the
\* session changes or removes it.
C5_CollectedImmutable ==
    [][\A k \in Keys : IsDefined(collected[k]) => collected'[k] = collected[k]]_vars

\* a later pass of resolveOptions ran over a key resolved in an earlier pass
C5_Witness ==
    /\ getOptionsCalls >= 2
    /\ Len(resolvedLog) >= 2
    /\ pc = "resolve_iter"
    /\ idx > 1
    /\ IsDefined(collected[optionDefs[1].key])

\* C6: at the step where execute starts, and from then on, the console
\* input handle that the session's prompts opened is closed.
C6_HandleClosedBeforeExecute ==
    executeCalls >= 1 => rl = "null"

\* execute has started in a session that showed a prompt
C6_Witness ==
    /\ pc = "executing"
    /\ prompted # <<>>

\* C7: on every exit path of a session the console input handle is closed
\* when the session ends, and execute is not invoked on the aborted paths.
C7_HandleClosedOnEveryExit ==
    /\ pc \in {"done", "failed", "aborted"} => rl = "null"
    /\ pc = "aborted" => executeCalls = 0

\* the definition of an option key
DefOfKey(k) ==
    CASE k = "version" -> versionDef
      [] k = "ssr" -> ssrDef
      [] k = "aiConfig" -> aiConfigDef
      [] k = "a" -> aDef
      [] k = "pm" -> pmDef
      [] k = "lockfile" -> lockfileDef
      [] OTHER -> bDef

\* the value the command line carries for the flag of a key (Absent when
\* the flag is not on the command line)
ArgvValue(k) == preParseArgv(<<DefOfKey(k)>>, argv)[CamelKey(DefOfKey(k).base)]

\* C8: a key that getOptions reveals during resolveOptions and whose flag
\* carries a value on the command line is never prompted for, and the
\* value collected for it is the text of the argv value.
C8_ArgvBeforePrompt ==
    \A k \in sessionSeen :
        IsDefined(ArgvValue(k)) =>
            /\ k \notin Range(prompted)
            /\ IsDefined(collected[k]) => collected[k].s = ArgvValue(k).s

\* the command line "--version 18" of the angular provider
ArgvVersion18 ==
    CommandPrefix(provider) \o <<Flag(<<"version">>), Word("18")>>

\* C9: with "--version 18" the angular provider's aiConfig is never
\* registered as a flag, never prompted for and never given a value; in
\* general a key that is in no schema returned during the session is never
\* prompted for and never assigned in collected.
C9_UnrevealedKeyUntouched ==
    /\ \A k \in OptionKeys \ sessionSeen :
            /\ k \notin Range(prompted)
            /\ ~IsDefined(collected[k])
            /\ ~IsDefined(executeArg[k])
    /\ (provider.kind = "angular" /\ argv = ArgvVersion18) =>
            /\ "aiConfig" \notin KeysOf(registered)
            /\ "aiConfig" \notin regSeen
            /\ "aiConfig" \notin Range(prompted)
            /\ ~IsDefined(collected["aiConfig"])
            /\ ~IsDefined(executeArg["aiConfig"])

\* the "--version 18" run was handed to execute with ssr resolved
C9_Witness ==
    /\ provider.kind = "angular"
    /\ argv = ArgvVersion18
    /\ pc = "done"
    /\ IsDefined(executeArg["ssr"])

\* the command line "--version 21 --ai-config claude"
ArgvVersion21Claude ==
    CommandPrefix(provider)
        \o <<Flag(<<"version">>), Word("21"), Flag(<<"ai", "config">>), Word("claude")>>

\* C10: with "--version 21 --ai-config claude" the discovery loop feeds
\* version "21" back to getOptions, ends on a schema that contains
\* aiConfig, its flag is registered, and the value resolved for aiConfig
\* is claude: the action receives and hands to execute the string
\* "claude" (the provisional value of the registration pass, for the
\* array-typed option, is the list of the one element claude).
C10_Version21RevealsAiConfig ==
    (provider.kind = "angular" /\ argv = ArgvVersion21Claude) =>
        /\ pc \notin {"reg_start", "reg_loop", "reg_failed"} =>
                /\ preCollected["version"] = Str("21")
                /\ pc = "registered" => "aiConfig" \in KeysOf(optionDefs)
                /\ aiConfigDef \in Range(registered)
                /\ preCollected["aiConfig"] = Arr(<<"claude">>)
                /\ cliOpts # EmptyObject => cliOpts["aiConfig"] = Str("claude")
        /\ executeCalls >= 1 => executeArg["aiConfig"] = Str("claude")

\* the "--version 21 --ai-config claude" run was handed to execute
C10_Witness ==
    /\ provider.kind = "angular"
    /\ argv = ArgvVersion21Claude
    /\ pc = "done"
    /\ regRounds = 2

\* the position of the token that last set the key of a definition (0 when
\* the scan has not set it)
SourceOf(d) == scanSource[CamelKey(d.base)]

\* the value the scan holds for a definition
ResultOf(d) == scanResult[CamelKey(d.base)]

\* the variadic definitions with choices of the schema being scanned
ChoiceArrayDefs ==
    {d \in Range(scanDefs) : d.type = "array" /\ d.choices # <<>>}

\* the parts of a list that are members of the choices, in order
MembersOf(parts, choices) ==
    LET Keep(part) == part # "" /\ part \in Range(choices)
    IN SelectSeq(parts, Keep)

\* C11 (as stated): for an array option with choices the equals form
\* yields every comma-separated part of the remainder after "=",
\* unfiltered: --opt=a,b,x yields [a, b, x].
C11_EqualsFormUnfiltered ==
    \A d \in ChoiceArrayDefs :
        (SourceOf(d) # 0 /\ scanArgs[SourceOf(d)].kind = "eq") =>
            ResultOf(d) = Arr(scanArgs[SourceOf(d)].val)

\* C11 (amended): for an array option with choices the equals form yields
\* the comma-separated parts of the remainder after "=" that are members of
\* the choices, in their order: --opt=a,b,x with choices a, b, c yields
\* [a, b].
C11_EqualsFormFiltered ==
    \A d \in ChoiceArrayDefs :
        (SourceOf(d) # 0 /\ scanArgs[SourceOf(d)].kind = "eq") =>
            /\ ResultOf(d) = Arr(MembersOf(scanArgs[SourceOf(d)].val, d.choices))
            /\ scanArgs[SourceOf(d)] = Eq(<<"opt">>, <<"a", "b", "x">>)
                    => ResultOf(d) = Arr(<<"a", "b">>)

\* the scan of "--opt=a,b,x" has returned
C11_Witness ==
    /\ scanPc = "returned"
    /\ scanArgs = <<Eq(<<"opt">>, <<"a", "b", "x">>)>>
    /\ scanResult["opt"] = Arr(<<"a", "b">>)

\* the position the for loop stood at right after position p (0 when p
\* was the last one so far)
VisitedAfter(p) ==
    LET at == CHOOSE n \in 1..Len(scanVisited) : scanVisited[n] = p
    IN IF at < Len(scanVisited) THEN scanVisited[at + 1] ELSE 0

RECURSIVE IsSubseq(_, _)
IsSubseq(short, long) ==
    IF short = <<>> THEN TRUE
    ELSE IF long = <<>> THEN FALSE
    ELSE IF Head(short) = Head(long) THEN IsSubseq(Tail(short), Tail(long))
    ELSE IsSubseq(short, Tail(long))

\* C13: for an array option with choices every element of the list that
\* preParseArgv holds for it is a member of the choices, for the equals
\* form and for the space form, and the elements are in the order in which
\* they appear in argv.
C13_ArrayElementsAreChoices ==
    \A d \in ChoiceArrayDefs :
        ResultOf(d).t = "array" =>
            /\ SourceOf(d) # 0
            /\ Range(ResultOf(d).s) \subseteq Range(d.choices)
            /\ IF scanArgs[SourceOf(d)].kind = "eq"
               THEN IsSubseq(ResultOf(d).s, scanArgs[SourceOf(d)].val)
               ELSE \A j \in 1..Len(ResultOf(d).s) :
                        /\ SourceOf(d) + j <= Len(scanArgs)
                        /\ TextOf(scanArgs[SourceOf(d) + j]) = ResultOf(d).s[j]

\* a scan that set the option from the space form and then from the equals
\* form, each time with a token outside the choices, has returned
C13_Witness ==
    /\ scanPc = "returned"
    /\ scanArgs = <<Flag(<<"opt">>), Word("b"), Word("x"),
                    Eq(<<"opt">>, <<"a", "b", "x">>)>>
    /\ scanVisited = <<1, 3, 4>>
    /\ scanResult["opt"] = Arr(<<"a", "b">>)

\* C14: for a string or number option with choices, an argv value outside
\* the choices ("--flag=v" or "--flag v") leaves the option unmatched:
\* preParseArgv's result holds no value for it.
C14_InvalidScalarUnmatched ==
    \A d \in Range(scanDefs) :
        (d.type \in {"string", "number"} /\ d.choices # <<>> /\ IsDefined(ResultOf(d))) =>
            /\ Len(ResultOf(d).s) = 1
            /\ ResultOf(d).s[1] \in Range(d.choices)

\* the positions the loop stood at whose token is one of the forms
\* --flag, --no-flag, --flag=v of a definition
FormPositions(d) ==
    {p \in Range(scanVisited) :
        \/ scanArgs[p] = Flag(d.base)
        \/ scanArgs[p] = Flag(<<"no">> \o d.base)
        \/ scanArgs[p].kind = "eq" /\ scanArgs[p].name = d.base}

\* the last of them
LastForm(d) == CHOOSE p \in FormPositions(d) : \A q \in FormPositions(d) : q <= p

\* the boolean definitions with defaultValue true of the schema
DefaultTrueDefs ==
    {d \in Range(scanDefs) : d.type = "boolean" /\ d.dflt = Bool(TRUE)}

\* C15 (as stated): for a boolean option with defaultValue true every argv
\* in which --no-flag occurs after an occurrence of --flag resolves the
\* option to false.
C15_NegationAfterPositive ==
    scanPc = "returned" =>
        \A d \in DefaultTrueDefs :
            (\E p, q \in 1..Len(scanArgs) :
                /\ p < q
                /\ scanArgs[p] = Flag(d.base)
                /\ scanArgs[q] = Flag(<<"no">> \o d.base))
            => ResultOf(d) = Bool(FALSE)

\* C15 (amended): for a boolean option with defaultValue true the last
\* token that the scan stands at and that is one of the option's forms
\* decides: the result is false when it is --no-flag, also after earlier
\* occurrences of --flag, and true when it is --flag, also after an
\* earlier --no-flag; a --no-flag that a preceding value option claimed as
\* its value does not count.
C15_LastFormWins ==
    scanPc = "returned" =>
        \A d \in DefaultTrueDefs :
            FormPositions(d) # {} =>
                /\ scanArgs[LastForm(d)] = Flag(<<"no">> \o d.base)
                        => ResultOf(d) = Bool(FALSE)
                /\ scanArgs[LastForm(d)] = Flag(d.base)
                        => ResultOf(d) = Bool(TRUE)

\* the scan of "--flag --no-flag" has returned false for the option
C15_Witness ==
    /\ scanPc = "returned"
    /\ scanArgs = <<Flag(<<"flag">>), Flag(<<"no", "flag">>)>>
    /\ scanResult["flag"] = Bool(FALSE)

\* C16: for an option with choices and a member v of them, the value that
\* preParseArgv holds after "--flag=v" is identical, in type and in value,
\* to the value promptForOption returns when the prompt selects v,
\* whatever the declared type (string, number or boolean).
C16_RoundTripIdentical ==
    scanPc = "asked" =>
        \A d \in Range(scanDefs) :
            (/\ d.key = asked.key
             /\ d.type \in {"string", "number", "boolean"}
             /\ d.choices # <<>>
             /\ Len(scanArgs) = 1
             /\ scanArgs[1].kind = "eq"
             /\ scanArgs[1].name = d.base
             /\ Len(scanArgs[1].val) = 1
             /\ scanArgs[1].val[1] \in Range(d.choices)
             /\ asked.value.s = scanArgs[1].val)
            => asked.value = ResultOf(d)

\* the discovery loop of registerPluginCommand from a given schema and
\* state on: the schema it ends with
RECURSIVE DiscoveryLoop(_, _, _, _, _, _)
DiscoveryLoop(p, args, defs, state, previous, rounds) ==
    IF KeysOf(defs) \ previous = {} \/ rounds >= MaxRounds THEN defs
    ELSE LET merged == Spread(state, preParseArgv(defs, args))
         IN DiscoveryLoop(p, args, getOptions(p, merged), merged,
                          NextPreviousKeys(KeysOf(defs), previous), rounds + 1)

\* a whole run of the loop seeded with a state
Discovery(p, args, seed) ==
    DiscoveryLoop(p, args, getOptions(p, seed), seed, {}, 0)

\* C17: for a deterministic provider and a fixed argv, running the
\* discovery loop again after it has stabilized, restarted from the same
\* seed or seeded with the state at which it stabilized, ends with the
\* same key set as the first run.
C17_RerunSameKeys ==
    pc = "registered" =>
        /\ KeysOf(Discovery(provider, argv, baseOpts)) = KeysOf(optionDefs)
        /\ KeysOf(Discovery(provider, argv, preCollected)) = KeysOf(optionDefs)

\* C18: within one run of the discovery loop previousKeys grows
\* monotonically: a key it holds stays in it, also when a later schema
\* drops the key.
C18_PreviousKeysGrow ==
    [][previousKeys \subseteq previousKeys']_vars

\* C19: the flags registered for the command cover every key of every
\* schema getOptions returned during the discovery loop, not only the keys
\* of the last one.
C19_AllSeenKeysRegistered ==
    pc \notin {"reg_start", "reg_loop", "reg_failed", "idle"} =>
        regSeen \subseteq KeysOf(registered)

\* the latest call was an addPluginGlob without a config path that succeeded
AddedWithoutPath ==
    /\ lastCall.op = "add"
    /\ lastCall.path = "none"
    /\ lastCall.outcome = "ok"

\* C20 (as stated): after addPluginGlob(g) succeeds with no explicit config
\* path, listPluginGlobs() contains g and every pattern it contained
\* immediately before the call, for every combination of global and local
\* config files.
C20_AddKeepsListed ==
    AddedWithoutPath =>
        /\ lastCall.glob \in Range(listPluginGlobs(files, homeAbove, "none"))
        /\ Range(lastCall.before)
                \subseteq Range(listPluginGlobs(files, homeAbove, "none"))

\* C20 (amended): after addPluginGlob(g) succeeds with no explicit config
\* path, listPluginGlobs() is the plugins list the file the call wrote
\* (the nearest config file upward from the working directory, else a new
\* file in it) held before the call, followed by g.  So it contains g, and
\* it contains every pattern listed before when that file already had a
\* plugins key or is the global file; when the call creates the plugins
\* key of a local file, the list is [g] alone and the patterns of the
\* global file are no longer listed.
C20_AddListsWrittenFile ==
    AddedWithoutPath =>
        LET now == listPluginGlobs(files, homeAbove, "none")
            written == lastCall.fileBefore
        IN /\ lastCall.glob \in Range(now)
           /\ now = (IF written.hasPlugins THEN written.plugins ELSE <<>>)
                        \o <<lastCall.glob>>
           /\ (written.hasPlugins \/ lastCall.target = "home")
                    => Range(lastCall.before) \subseteq Range(now)
           /\ (~written.hasPlugins /\ lastCall.target # "home")
                    => now = <<lastCall.glob>>

\* a pattern was added to a local file without plugins key while the
\* global file lists another pattern
C20_Witness ==
    /\ AddedWithoutPath
    /\ lastCall.target = "cwd"
    /\ ~lastCall.fileBefore.hasPlugins
    /\ files["home"].hasPlugins
    /\ lastCall.before = <<DefaultGlob>>
    /\ listPluginGlobs(files, homeAbove, "none") = <<"./custom/**">>

\* does a list hold no pattern twice
NoPatternTwice(list) ==
    \A m, n \in 1..Len(list) : list[m] = list[n] => m = n

\* C21: addPluginGlob(g) on a config whose plugins list contains g fails
\* with "already exists" and leaves the file unchanged; removePluginGlob(g)
\* on a config that does not contain g fails with "not found" and leaves
\* it unchanged; and no call of initConfig, addPluginGlob or
\* removePluginGlob makes a plugins list hold a pattern twice, so a file
\* that these calls created and edited never does.
C21_DuplicateAndMissingRejected ==
    /\ [](/\ (/\ lastCall.op = "add"
              /\ lastCall.glob \in Range(lastCall.fileBefore.plugins))
             => /\ lastCall.outcome = "already exists"
                /\ files[lastCall.target] = lastCall.fileBefore
          /\ (/\ lastCall.op = "remove"
              /\ lastCall.target # "null"
              /\ lastCall.glob \notin Range(lastCall.fileBefore.plugins))
             => /\ lastCall.outcome = "not found"
                /\ files[lastCall.target] = lastCall.fileBefore)
    /\ [][/\ lastCall'.outcome # "ok" => files' = files
          /\ \A p \in Paths :
                NoPatternTwice(files[p].plugins) => NoPatternTwice(files'[p].plugins)]_vars

\* an addPluginGlob of the pattern initConfig wrote was rejected
C21_Witness ==
    /\ lastCall.op = "add"
    /\ lastCall.outcome = "already exists"
    /\ lastCall.glob = DefaultGlob
    /\ files[lastCall.target] = ConfigFile(TRUE, <<DefaultGlob>>)

\* the position the for loop stood at last (0 before the first iteration)
LastVisited ==
    IF scanVisited = <<>> THEN 0 ELSE scanVisited[Len(scanVisited)]

\* C22: when a token --no-X can be read as the negation of a boolean
\* option with flag --X and as the positive form of another boolean option
\* with flag --no-X, preParseArgv applies the negation reading (X becomes
\* false, the other option is not set by the token), whatever the order of
\* the two definitions in the schema.
C22_NegationReadingWins ==
    \A d, other \in Range(scanDefs) :
        (/\ d.type = "boolean"
         /\ other.type = "boolean"
         /\ other.base = <<"no">> \o d.base
         /\ LastVisited # 0
         /\ scanArgs[LastVisited] = Flag(other.base))
        => /\ SourceOf(d) = LastVisited
           /\ ResultOf(d) = Bool(FALSE)
           /\ SourceOf(other) # LastVisited

\* is the loop, after standing at position p, next at position q
NextAfter(p, q) ==
    IF VisitedAfter(p) = 0 THEN scanI = q ELSE VisitedAfter(p) = q

\* C25: for a string or number option the space form "--flag v" claims
\* exactly one following token as its value, also when that token starts
\* with "--", and the scan resumes after it; the positive form of a boolean
\* option claims no following token.
C25_ScalarClaimsOneToken ==
    \A d \in Range(scanDefs) :
        \A p \in Range(scanVisited) :
            scanArgs[p] = Flag(d.base) =>
                /\ d.type \in {"string", "number"} =>
                        /\ NextAfter(p, p + 2)
                        /\ p + 1 \notin Range(scanVisited)
                        /\ (SourceOf(d) = p /\ p + 1 <= Len(scanArgs)) =>
                                /\ ResultOf(d).t = d.type
                                /\ d.type = "string"
                                        => ResultOf(d) = TextValue(scanArgs[p + 1])
                /\ d.type = "boolean" =>
                        /\ NextAfter(p, p + 1)
                        /\ SourceOf(d) = p => ResultOf(d) = Bool(TRUE)

\* the scan of "--tag --flag" has returned: --flag is the value of tag
C25_Witness ==
    /\ scanPc = "returned"
    /\ scanArgs = <<Flag(<<"tag">>), Flag(<<"flag">>)>>
    /\ scanResult["tag"] = Str("--flag")
    /\ scanResult["flag"] = Absent
    /\ scanVisited = <<1>>

\* is the token one of the forms --flag, --no-flag, --flag=v of a
\* definition of the schema
IsFormOfSomeDef(tok) ==
    \E d \in Range(scanDefs) :
        \/ tok = Flag(d.base)
        \/ tok = Flag(<<"no">> \o d.base)
        \/ tok.kind = "eq" /\ tok.name = d.base

\* the tokens the loop stood at that are a form of no definition, in order
UnmatchedTokens ==
    LET Unmatched(p) == ~IsFormOfSomeDef(scanArgs[p])
        at == SelectSeq(scanVisited, Unmatched)
    IN [n \in 1..Len(at) |-> scanArgs[at[n]]]

\* C26 (as stated): preParseArgv hands the unmatched tokens back to its
\* caller as residual argv: what the caller goes on with is exactly the
\* tokens that matched no definition and were not claimed as a value, in
\* their order.
C26_ResidualHandedBack ==
    scanPc \in {"returned", "asked"} => scanHandedBack = UnmatchedTokens

\* C26 (amended): preParseArgv returns only the result map.  It collects
\* the tokens that matched no definition and were not claimed as a value,
\* in their order, in its local list remaining, which is dropped on
\* return; it scans a copy of the process argument vector, so the vector
\* is not modified and the caller's parser goes on with every token of it,
\* the matched and claimed ones included.
C26_ArgvLeftWhole ==
    /\ scanRemaining = UnmatchedTokens
    /\ scanPc \in {"returned", "asked"} => scanHandedBack = scanArgs

\* the scan of "--opt a x --other" has returned: x alone was unmatched
C26_Witness ==
    /\ scanPc = "returned"
    /\ scanArgs = <<Flag(<<"opt">>), Word("a"), Word("x"), Flag(<<"other">>)>>
    /\ scanRemaining = <<Word("x")>>
    /\ scanHandedBack = scanArgs

\* C28: the negation form applies to boolean options only: a token
\* --no-<flag> whose flag belongs to a string, number or array option
\* assigns no value to the option and is an unmatched token.
C28_NegationOnlyForBoolean ==
    \A d \in Range(scanDefs) :
        (/\ d.type # "boolean"
         /\ LastVisited # 0
         /\ scanArgs[LastVisited] = Flag(<<"no">> \o d.base))
        => /\ SourceOf(d) # LastVisited
           /\ ResultOf(d) # Bool(FALSE)
           /\ scanRemaining # <<>>
           /\ scanRemaining[Len(scanRemaining)] = scanArgs[LastVisited]

\* the definition promptForOption was called for
AskedDef == CHOOSE d \in Range(scanDefs) : d.key = asked.key

\* the options the choice prompt is shown for
AskedBySelect ==
    /\ scanPc = "asked"
    /\ AskedDef.type # "array"
    /\ AskedDef.choices # <<>>

\* String(defaultValue ?? items[0])
SelectFallback(d) ==
    IF IsDefined(d.dflt) THEN StrParts(StringOf(d.dflt)) ELSE Str(d.choices[1])

\* is the answer a 1-based index into the choices
IsIndexAnswer(d) ==
    /\ IntOf(Trim(asked.answer[1])) >= 1
    /\ IntOf(Trim(asked.answer[1])) <= Len(d.choices)

\* is the answer exactly a member of the choices
IsLiteralAnswer(d) ==
    /\ Len(asked.answer) = 1
    /\ Trim(asked.answer[1]) \in Range(d.choices)

\* C23 (as stated): in the choice prompt an answer that is exactly equal
\* to a member of the choices selects that member, for every choice set,
\* also when the answer is a valid 1-based index as well; an empty answer
\* selects the default, or the first choice when there is no default; any
\* other answer (that is no index either) yields the default.
C23_LiteralAnswerSelects ==
    AskedBySelect =>
        /\ IsLiteralAnswer(AskedDef) => asked.value = Str(Trim(asked.answer[1]))
        /\ IsBlank(asked.answer) => asked.value = SelectFallback(AskedDef)
        /\ (/\ ~IsLiteralAnswer(AskedDef)
            /\ ~IsBlank(asked.answer)
            /\ ~IsIndexAnswer(AskedDef))
           => asked.value = SelectFallback(AskedDef)

\* C23 (amended): in the choice prompt an empty answer selects the default,
\* or the first choice when there is no default; otherwise an answer that
\* starts with an integer i with 1 <= i <= number of choices selects the
\* i-th choice, also when the answer is equal to another member (with the
\* choices ["2", "1"] the answer 2 selects "1") or goes on after the
\* integer (2x); otherwise an answer exactly equal to a member selects that
\* member; any other answer yields the default, or the first choice when
\* there is no default.
C23_IndexBeforeLiteral ==
    AskedBySelect =>
        /\ IsBlank(asked.answer) => asked.value = SelectFallback(AskedDef)
        /\ (~IsBlank(asked.answer) /\ IsIndexAnswer(AskedDef))
                => asked.value = Str(AskedDef.choices[IntOf(Trim(asked.answer[1]))])
        /\ (/\ ~IsBlank(asked.answer)
            /\ ~IsIndexAnswer(AskedDef)
            /\ IsLiteralAnswer(AskedDef))
           => asked.value = Str(Trim(asked.answer[1]))
        /\ (/\ ~IsBlank(asked.answer)
            /\ ~IsIndexAnswer(AskedDef)
            /\ ~IsLiteralAnswer(AskedDef))
           => asked.value = SelectFallback(AskedDef)
        /\ (AskedDef = pickDef /\ asked.answer = <<"2">>) => asked.value = Str("1")

\* the answer 2 at the prompt of the choices ["2", "1"] selected "1"
C23_Witness ==
    /\ scanPc = "asked"
    /\ asked.key = "pick"
    /\ asked.answer = <<"2">>
    /\ asked.value = Str("1")

\* C24 (as stated): the prompt kind is picked by the precedence choices,
\* pure boolean flag, array, free text: every option with choices, the
\* array-typed ones included, is resolved through the choice prompt (its
\* value is one member of the choices, as a string), and the
\* comma-separated prompt is used only for array options without choices.
C24_ChoicesBeforeArray ==
    (scanPc = "asked" /\ AskedDef.choices # <<>>) =>
        /\ asked.value.t = "string"
        /\ Len(asked.value.s) = 1
        /\ asked.value.s[1] \in Range(AskedDef.choices)

\* C24 (amended): the prompt kind is picked by the precedence array type,
\* choices, pure boolean flag, free text: every array-typed option, with
\* or without choices, is resolved through the comma-separated prompt (its
\* value is a list: the parts of the answer, or of the default for an
\* empty answer, filtered to the members when choices are declared); the
\* choice prompt is used for the options with choices that are not
\* array-typed, the confirmation for flags without a value placeholder and
\* without choices, the free-text prompt for the rest.
C24_ArrayBeforeChoices ==
    scanPc = "asked" =>
        /\ AskedDef.type = "array" =>
                /\ asked.value.t = "array"
                /\ AskedDef.choices # <<>> =>
                        asked.value.s =
                            MembersOf(IF IsBlank(asked.answer) THEN <<>> ELSE asked.answer,
                                      AskedDef.choices)
                /\ (AskedDef.choices = <<>> /\ ~IsBlank(asked.answer)) =>
                        asked.value.s = asked.answer
        /\ (AskedDef.type # "array" /\ AskedDef.choices # <<>>) =>
                /\ asked.value.t = "string"
                /\ Len(asked.value.s) = 1
                /\ asked.value.s[1] \in Range(AskedDef.choices)
        /\ (AskedDef.type # "array" /\ AskedDef.choices = <<>> /\ ~AskedDef.arg) =>
                asked.value.t = "boolean"
        /\ (AskedDef.type # "array" /\ AskedDef.choices = <<>> /\ AskedDef.arg) =>
                asked.value.t = "string"

\* the answer "b,c" at the prompt of the array option with choices a, b, c
\* gave the list [b, c]
C24_Witness ==
    /\ scanPc = "asked"
    /\ asked.key = "opt"
    /\ asked.answer = <<"b", "c">>
    /\ asked.value = Arr(<<"b", "c">>)

\* C27 (as stated): the value the registration-time pre-parse finds for an
\* option on the command line is merged into the provisional state under
\* the definition's option key, also when that key is not the camelCase of
\* the flag (key pm, flag --package-manager <value>), so that the next
\* getOptions call sees it under the declared key and the options it gates
\* are discovered.
C27_MergedUnderOptionKey ==
    /\ [][regRounds' = regRounds + 1 =>
            \A i \in 1..Len(optionDefs) :
                LET d == optionDefs[i]
                    v == preParseArgv(optionDefs, argv)[CamelKey(d.base)]
                IN IsDefined(v) => preCollected'[d.key] = v]_vars
    /\ []((/\ provider.kind = "keyed"
           /\ pc = "registered"
           /\ IsDefined(ArgvValue("pm")))
          => "lockfile" \in KeysOf(registered))

\* the keys resolveOptions assigned, in order
ResolvedKeys == [i \in 1..Len(resolvedLog) |-> resolvedLog[i][1]]

\* C29: resolveOptions terminates for every provider with finitely many
\* keys, also one whose schema drops and re-adds keys, provided every
\* question is answered: every key is resolved at most once, each pass but
\* the last resolves a key, so getOptions is called at most (number of
\* distinct keys the provider declares + 1) times (the bound on the calls
\* of the model is never reached), and a started resolveOptions returns,
\* throws or is interrupted.
C29_ResolveTerminates ==
    /\ [](/\ \A i, j \in 1..Len(resolvedLog) :
                ResolvedKeys[i] = ResolvedKeys[j] => i = j
          /\ Range(ResolvedKeys) \subseteq DeclaredKeys(provider)
          /\ getOptionsCalls <= Len(resolvedLog) + 1
          /\ getOptionsCalls <= Cardinality(DeclaredKeys(provider)) + 1
          /\ pc = "resolve_get" => getOptionsCalls < MaxCalls)
    /\ ((pc = "resolve_get") ~> (pc \in {"resolved", "failed", "aborted"}))

\* resolveOptions returned after as many getOptions calls as the bound
\* allows, for a provider whose latest schema lacks a key of an earlier one
C29_Witness ==
    /\ pc = "resolved"
    /\ getOptionsCalls = Cardinality(DeclaredKeys(provider)) + 1
    /\ ~(sessionSeen \subseteq KeysOf(optionDefs))

\* the option keys the map handed to execute holds a value for
ExecuteKeys == {k \in Keys \ SeedKeys : IsDefined(executeArg[k])}

\* C30 (as stated): every non-seed key of the map handed to execute is a
\* key of the last schema getOptions returned; execute never receives a
\* value for an option that a later schema dropped.
C30_ExecuteKeysInLastSchema ==
    executeCalls >= 1 => ExecuteKeys \subseteq KeysOf(optionDefs)

\* C30 (amended): the map handed to execute holds every value resolved
\* during the session, those of options that a later schema dropped
\* included: its non-seed keys are exactly the keys resolveOptions
\* assigned, each a key of some schema returned during the session (not
\* necessarily the last one), each with the value it was resolved to.
C30_ExecuteKeepsEveryResolved ==
    executeCalls >= 1 =>
        /\ ExecuteKeys = Range(ResolvedKeys)
        /\ ExecuteKeys \subseteq sessionSeen
        /\ \A i \in 1..Len(resolvedLog) :
                executeArg[resolvedLog[i][1]] = resolvedLog[i][2]

\* execute was handed a value for an option that the last schema lacks
C30_Witness ==
    /\ pc = "executing"
    /\ executeCalls = 1
    /\ \E k \in ExecuteKeys : k \notin KeysOf(optionDefs)

====
